---- MODULE Spec2Model ----
(***************************************************************************)
(* A model of main.py (TicketmasterAlert v1.1): one run of the script      *)
(* scrapes the resale page (scrape_ticket_info), summarises the listings,  *)
(* alerts through Pushbullet when the cheapest price is below the          *)
(* threshold (send_pushbullet_alert) and appends one row to the CSV log.   *)
(*                                                                         *)
(* Representation.  A Python str is a TLA+ string in the state; Chars      *)
(* gives its characters, and the string operations of the source (lower,   *)
(* replace, strip, int, float, in) are computed on the characters.  A      *)
(* price (a Python float of euros) is kept as an integer number of cents.  *)
(* A value that may be 'N/A' is <<>> (absent) or <<v>> (present).          *)
(***************************************************************************)
EXTENDS Integers, Sequences, FiniteSets, TLC

(***************************************************************************)
(* Strings as character sequences                                          *)
(***************************************************************************)

\* The characters of the strings the model uses.
Chars(s) ==
    CASE s = "2 Beschikbaar" -> <<"2", " ", "B", "e", "s", "c", "h", "i", "k", "b", "a", "a", "r">>
      [] s = "1 beschikbaar" -> <<"1", " ", "b", "e", "s", "c", "h", "i", "k", "b", "a", "a", "r">>
      [] s = "3 beschikbaar" -> <<"3", " ", "b", "e", "s", "c", "h", "i", "k", "b", "a", "a", "r">>
      [] s = "Uitverkocht" -> <<"U", "i", "t", "v", "e", "r", "k", "o", "c", "h", "t">>
      [] s = "€ 299,99 per stuk" -> <<"€", " ", "2", "9", "9", ",", "9", "9", " ", "p", "e", "r", " ", "s", "t", "u", "k">>
      [] s = "€300,00 per stuk" -> <<"€", "3", "0", "0", ",", "0", "0", " ", "p", "e", "r", " ", "s", "t", "u", "k">>
      [] s = "€ 350,5 per stuk" -> <<"€", " ", "3", "5", "0", ",", "5", " ", "p", "e", "r", " ", "s", "t", "u", "k">>
      [] s = "€1.000,00" -> <<"€", "1", ".", "0", "0", "0", ",", "0", "0">>
      [] s = "beschikbaar" -> <<"b", "e", "s", "c", "h", "i", "k", "b", "a", "a", "r">>
      [] s = "€" -> <<"€">>
      [] s = "per stuk" -> <<"p", "e", "r", " ", "s", "t", "u", "k">>
      [] s = "," -> <<",">>
      [] s = "." -> <<".">>
      [] s = "" -> <<>>
      [] s = "<YOUR_PUSHBULLET_ACCESS_TOKEN>" -> <<"<", "Y", "O", "U", "R", "_", "P", "U", "S", "H", "B", "U", "L", "L", "E", "T", "_", "A", "C", "C", "E", "S", "S", "_", "T", "O", "K", "E", "N", ">">>
      [] s = "YOUR_PUSHBULLET_ACCESS_TOKEN" -> <<"Y", "O", "U", "R", "_", "P", "U", "S", "H", "B", "U", "L", "L", "E", "T", "_", "A", "C", "C", "E", "S", "S", "_", "T", "O", "K", "E", "N">>
      [] s = "o.Valid1" -> <<"o", ".", "V", "a", "l", "i", "d", "1">>
      [] s = "o.Valid2" -> <<"o", ".", "V", "a", "l", "i", "d", "2">>

Digits == <<"0", "1", "2", "3", "4", "5", "6", "7", "8", "9">>

IsDigit(c) == \E d \in 1..10 : Digits[d] = c

DigitValue(c) == (CHOOSE d \in 1..10 : Digits[d] = c) - 1

\* str.lower() on one character (the letters that occur upper-case in Chars).
LowerChar(c) ==
    CASE c = "B" -> "b"
      [] c = "U" -> "u"
      [] c = "V" -> "v"
      [] OTHER -> c

\* str.lower()
Lower(cs) == [i \in 1..Len(cs) |-> LowerChar(cs[i])]

\* cs[i:].startswith(pat)
StartsWithAt(cs, i, pat) ==
    /\ i + Len(pat) - 1 <= Len(cs)
    /\ \A j \in 1..Len(pat) : cs[i + j - 1] = pat[j]

\* pat in cs  (substring test; the empty pattern is in every string)
Contains(cs, pat) == \E i \in 1..(Len(cs) + 1) : StartsWithAt(cs, i, pat)

\* str.replace(pat, '') for a non-empty pat: every non-overlapping
\* occurrence, left to right, is removed.
RECURSIVE RemoveFrom(_, _, _)
RemoveFrom(cs, i, pat) ==
    IF i > Len(cs) THEN <<>>
    ELSE IF StartsWithAt(cs, i, pat) THEN RemoveFrom(cs, i + Len(pat), pat)
    ELSE <<cs[i]>> \o RemoveFrom(cs, i + 1, pat)

Remove(cs, pat) == RemoveFrom(cs, 1, pat)

\* str.replace(a, b) for single characters a, b.
ReplaceChar(cs, a, b) == [i \in 1..Len(cs) |-> IF cs[i] = a THEN b ELSE cs[i]]

\* str.strip(): leading and trailing blanks removed.
RECURSIVE LStrip(_)
LStrip(cs) == IF cs # <<>> /\ Head(cs) = " " THEN LStrip(Tail(cs)) ELSE cs

RECURSIVE RStrip(_)
RStrip(cs) ==
    IF cs # <<>> /\ cs[Len(cs)] = " " THEN RStrip(SubSeq(cs, 1, Len(cs) - 1)) ELSE cs

Strip(cs) == RStrip(LStrip(cs))

AllDigits(cs) == \A i \in 1..Len(cs) : IsDigit(cs[i])

RECURSIVE DecimalValue(_)
DecimalValue(cs) ==
    IF cs = <<>> THEN 0
    ELSE 10 * DecimalValue(SubSeq(cs, 1, Len(cs) - 1)) + DigitValue(cs[Len(cs)])

\* int(cs) on an unsigned decimal literal: <<n>>, or <<>> where int()
\* raises ValueError.
ParseInt(cs) == IF cs # <<>> /\ AllDigits(cs) THEN <<DecimalValue(cs)>> ELSE <<>>

\* Index of the first "." of cs, or 0.
DotAt(cs) ==
    IF \E i \in 1..Len(cs) : cs[i] = "."
    THEN CHOOSE i \in 1..Len(cs) : cs[i] = "." /\ \A j \in 1..(i - 1) : cs[j] # "."
    ELSE 0

\* The cents of a fraction part: its first two digits, padded with zeros.
FracCents(fs) ==
    CASE Len(fs) = 0 -> 0
      [] Len(fs) = 1 -> 10 * DigitValue(fs[1])
      [] OTHER -> 10 * DigitValue(fs[1]) + DigitValue(fs[2])

\* float(cs) on an unsigned decimal literal "ddd", "ddd.dd", ".d" or "d.",
\* in cents: <<c>>, or <<>> where float() raises ValueError (no digit, a
\* second ".", any other character).
ParseFloat(cs) ==
    LET d == DotAt(cs)
        ip == IF d = 0 THEN cs ELSE SubSeq(cs, 1, d - 1)
        fp == IF d = 0 THEN <<>> ELSE SubSeq(cs, d + 1, Len(cs))
    IN  IF AllDigits(ip) /\ AllDigits(fp) /\ Len(ip) + Len(fp) > 0
        THEN <<100 * DecimalValue(ip) + FracCents(fp)>>
        ELSE <<>>

\* int(availability_text.lower().replace('beschikbaar', '').strip())
parseAvailability(text) ==
    ParseInt(Strip(Remove(Lower(Chars(text)), Chars("beschikbaar"))))

\* float(price_text.replace('€', '').replace('per stuk', '')
\*       .replace(',', '.').strip())
parsePrice(text) ==
    ParseFloat(Strip(ReplaceChar(Remove(Remove(Chars(text), Chars("€")),
                                        Chars("per stuk")), ",", ".")))

(***************************************************************************)
(* Inputs: what the page, the environment and the services may hand the    *)
(* script.                                                                 *)
(***************************************************************************)

\* Longest token list, longest container list, longest all-parsable
\* container list, and number of runs the specifications explore.
MaxTokens == 2

MaxContainers == 2

MaxListings == 10

MaxRuns == 3

Absent == <<>>

Some(v) == <<v>>

\* The span texts of the containers a page may show, in page order of the
\* spans: type, availability, category, price (and a fifth, extra span).
GoodA == <<"Festivalticket", "2 Beschikbaar", "Weekend", "€ 299,99 per stuk">>

GoodB == <<"Festivalticket", "1 beschikbaar", "Weekend", "€300,00 per stuk">>

GoodC == <<"Campingticket", "3 beschikbaar", "Weekend", "€ 350,5 per stuk">>

BadAvailability == <<"Festivalticket", "Uitverkocht", "Weekend", "€ 299,99 per stuk">>

BadPrice == <<"Festivalticket", "1 beschikbaar", "Weekend", "€1.000,00">>

FiveSpans == <<"Festivalticket", "1 beschikbaar", "Weekend", "€ 299,99 per stuk", "€">>

ThreeSpans == <<"Festivalticket", "1 beschikbaar", "Weekend">>

ContainerKinds == {GoodA, GoodB, BadAvailability, BadPrice, FiveSpans, ThreeSpans}

ParsableKinds == {GoodA, GoodC}

\* Every list of at most n containers of the given kinds.
Pages(kinds, n) == UNION {[1..k -> kinds] : k \in 0..n}

TokenValues == {"", "<YOUR_PUSHBULLET_ACCESS_TOKEN>", "o.Valid1", "o.Valid2"}

\* The values of PUSHBULLET_TOKENS_JSON: unset, not JSON, or a JSON array of
\* strings of at most n tokens.
TokenEnvs(n) ==
    {[kind |-> "absent"], [kind |-> "malformed"]}
        \cup {[kind |-> "array", value |-> ts] :
                 ts \in UNION {[1..k -> TokenValues] : k \in 0..n}}

(***************************************************************************)
(* Summarizer (main.py lines 125-153)                                      *)
(***************************************************************************)

PRICE_ALERT_THRESHOLD == 30000

\* sum(item['availability'] for item in scraped_info)
RECURSIVE SumAvailability(_)
SumAvailability(items) ==
    IF items = <<>> THEN 0 ELSE Head(items).availability + SumAvailability(Tail(items))

RECURSIVE SumPrice(_)
SumPrice(items) ==
    IF items = <<>> THEN 0 ELSE Head(items).price + SumPrice(Tail(items))

\* Insertion of x into an ascending list after every element whose price is
\* not larger (sorted() is stable).
RECURSIVE InsertByPrice(_, _)
InsertByPrice(x, sortedItems) ==
    IF sortedItems = <<>> THEN <<x>>
    ELSE IF Head(sortedItems).price <= x.price
         THEN <<Head(sortedItems)>> \o InsertByPrice(x, Tail(sortedItems))
         ELSE <<x>> \o sortedItems

\* The list left as it was scraped.
SortedByPrice_NoSort(items) == items

\* sorted(scraped_info, key=lambda x: x['price'])
RECURSIVE SortedByPrice(_)
SortedByPrice(items) ==
    IF items = <<>> THEN <<>>
    ELSE InsertByPrice(items[Len(items)], SortedByPrice(SubSeq(items, 1, Len(items) - 1)))

\* sorted_tickets[k - 1]['price'] if len(sorted_tickets) >= k else 'N/A'
PriceAt(sorted_tickets, k) ==
    IF Len(sorted_tickets) >= k THEN Some(sorted_tickets[k].price) ELSE Absent

\* round(total / n, 2) in cents: the quotient rounded to the nearest cent,
\* a tie to the even cent.
RoundDiv(total, n) ==
    LET q == total \div n
        r == total % n
    IN  IF 2 * r < n THEN q
        ELSE IF 2 * r > n THEN q + 1
        ELSE IF q % 2 = 0 THEN q ELSE q + 1

\* round(sum(prices) / len(prices), 2), or 'N/A' for no ticket
AveragePrice(items) ==
    IF Len(items) > 0 THEN Some(RoundDiv(SumPrice(items), Len(items))) ELSE Absent

\* summary_data of lines 125-153; now stands for datetime.now().
Summarize(info, now) ==
    LET sorted_tickets == SortedByPrice(info)
    IN  [timestamp |-> now,
         listings_found |-> Len(info),
         total_available_tickets |-> SumAvailability(info),
         cheapest_price |-> PriceAt(sorted_tickets, 1),
         price_5th_cheapest |-> PriceAt(sorted_tickets, 5),
         price_10th_cheapest |-> PriceAt(sorted_tickets, 10),
         most_expensive_price |->
             IF Len(sorted_tickets) > 0
             THEN Some(sorted_tickets[Len(sorted_tickets)].price) ELSE Absent,
         average_price_10_cheapest |->
             AveragePrice(SubSeq(sorted_tickets, 1,
                                 IF Len(sorted_tickets) < 10 THEN Len(sorted_tickets) ELSE 10)),
         average_price_all_tickets |-> AveragePrice(sorted_tickets)]

\* The comparison with <= for <.
BelowThreshold_OrEqual(cheapest) == cheapest <= PRICE_ALERT_THRESHOLD

\* cheapest_price < PRICE_ALERT_THRESHOLD (line 159)
BelowThreshold(cheapest) == cheapest < PRICE_ALERT_THRESHOLD

(***************************************************************************)
(* State                                                                   *)
(***************************************************************************)

VARIABLES
    pc,                     \* the statement the run is at
    run,                    \* number of the run; stands for datetime.now()
    PUSHBULLET_API_TOKENS,  \* the token list of lines 111-115
    playwright,             \* the sync_playwright() context: none, running, stopped
    browser,                \* the browser of line 42: none, open, closed
    close_calls,            \* calls of browser.close() in this run
    fault,                  \* the step of this run that raised, or "none"
    ticket_containers,      \* result of query_selector_all (line 73)
    idx,                    \* position of the for loop of line 77
    scraped_data,           \* the list built by scrape_ticket_info
    pending,                \* what the try statement is doing when finally starts
    retval,                 \* what scrape_ticket_info returned
    scraped_info,           \* the list main received (line 120)
    summary_data,           \* Absent, or Some(the summary of lines 143-153)
    alert_calls,            \* calls of send_pushbullet_alert in this run
    tok_idx,                \* position of the for loop of line 18
    requests,               \* the requests.post calls of this run, in order
    log_calls,              \* times this run reached the csv append (line 169)
    log_file                \* tickets_summary_log.csv: Absent (no file) or Some(rows)

vars == <<pc, run, PUSHBULLET_API_TOKENS, playwright, browser, close_calls, fault,
          ticket_containers, idx, scraped_data, pending, retval, scraped_info,
          summary_data, alert_calls, tok_idx, requests, log_calls, log_file>>

scrapeVars == <<playwright, browser, close_calls, ticket_containers, idx,
                scraped_data, pending, retval>>

mainVars == <<PUSHBULLET_API_TOKENS, scraped_info, summary_data, alert_calls,
              tok_idx, requests, log_calls, log_file>>

\* The state of a process that has just started (line 106).
FreshRun ==
    /\ pc = "start"
    /\ PUSHBULLET_API_TOKENS = <<>>
    /\ playwright = "none"
    /\ browser = "none"
    /\ close_calls = 0
    /\ fault = "none"
    /\ ticket_containers = <<>>
    /\ idx = 0
    /\ scraped_data = <<>>
    /\ pending = [kind |-> "none"]
    /\ retval = [kind |-> "unset"]
    /\ scraped_info = <<>>
    /\ summary_data = Absent
    /\ alert_calls = 0
    /\ tok_idx = 0
    /\ requests = <<>>
    /\ log_calls = 0

Init ==
    /\ FreshRun
    /\ run = 1
    /\ log_file = Absent

(***************************************************************************)
(* __main__, lines 106-120                                                 *)
(***************************************************************************)

\* json.loads(tokens_json) if tokens_json else []: the list, or "raise"
\* where json.loads raises JSONDecodeError.
LoadTokens(env) ==
    CASE env.kind = "absent" -> [kind |-> "list", value |-> <<>>]
      [] env.kind = "array" -> [kind |-> "list", value |-> env.value]
      [] OTHER -> [kind |-> "raise"]

\* Lines 107-119.  Nothing catches the exception of json.loads: the process
\* ends with a traceback (pc = "crashed").
ReadTokens(envs) ==
    /\ pc = "start"
    /\ \E env \in envs :
         LET r == LoadTokens(env)
         IN  IF r.kind = "list"
             THEN /\ PUSHBULLET_API_TOKENS' = r.value
                  /\ pc' = "launch"
                  /\ fault' = fault
             ELSE /\ PUSHBULLET_API_TOKENS' = PUSHBULLET_API_TOKENS
                  /\ pc' = "crashed"
                  /\ fault' = "tokens_json"
    /\ UNCHANGED <<run, scrapeVars, scraped_info, summary_data, alert_calls,
                   tok_idx, requests, log_calls, log_file>>

(***************************************************************************)
(* scrape_ticket_info, lines 35-103                                        *)
(***************************************************************************)

\* Lines 39-42: the playwright context is entered and chromium launched.  A
\* failing launch is outside the try statement: it leaves the with block
\* and the function as an exception nothing catches.
LaunchBrowser ==
    /\ pc = "launch"
    /\ \/ /\ playwright' = "running"
          /\ browser' = "open"
          /\ pc' = "new_page"
          /\ fault' = fault
       \/ /\ playwright' = "stopped"
          /\ browser' = browser
          /\ pc' = "crashed"
          /\ fault' = "launch"
    /\ UNCHANGED <<run, close_calls, ticket_containers, idx, scraped_data, pending,
                   retval, mainVars>>

\* Lines 43-48: new_page, set_viewport_size, scraped_data = [].  These are
\* before the try statement too: when one raises, the with block is left
\* (the context stops) without browser.close() being called.
NewPage ==
    /\ pc = "new_page"
    /\ scraped_data' = <<>>
    /\ \/ /\ pc' = "goto"
          /\ UNCHANGED <<playwright, fault>>
       \/ /\ pc' = "crashed"
          /\ playwright' = "stopped"
          /\ fault' = "new_page"
    /\ UNCHANGED <<run, browser, close_calls, ticket_containers, idx, pending,
                   retval, mainVars>>

\* The handler a raised exception of the try body reaches (lines 92, 97).
HandlerOf(exc) == IF exc = "TimeoutError" THEN "except_timeout" ELSE "except_exception"

\* Line 51: page.goto(url, timeout=60000).
Goto ==
    /\ pc = "goto"
    /\ \/ /\ pc' = "cookie"
          /\ fault' = fault
       \/ /\ pc' = HandlerOf("TimeoutError")
          /\ fault' = "goto_timeout"
       \/ /\ pc' = HandlerOf("Error")
          /\ fault' = "goto_error"
    /\ UNCHANGED <<run, scrapeVars, mainVars>>

\* Lines 54-62: the cookie banner is clicked; a timeout and any other
\* exception of the click are caught here, and the scrape goes on.
CookieConsent ==
    /\ pc = "cookie"
    /\ \E outcome \in {"clicked", "TimeoutError", "Error"} : pc' = "wait"
    /\ UNCHANGED <<run, fault, scrapeVars, mainVars>>

\* Lines 65-69: time.sleep(30), then wait_for_selector(..., timeout=30000).
WaitForSelector ==
    /\ pc = "wait"
    /\ \/ /\ pc' = "query"
          /\ fault' = fault
       \/ /\ pc' = HandlerOf("TimeoutError")
          /\ fault' = "wait_timeout"
       \/ /\ pc' = HandlerOf("Error")
          /\ fault' = "wait_error"
    /\ UNCHANGED <<run, scrapeVars, mainVars>>

\* Lines 73-76: the containers are queried; with none of them the function
\* returns [] (through the finally clause).
QueryContainers(pages) ==
    /\ pc = "query"
    /\ \E page \in pages :
         /\ ticket_containers' = page
         /\ IF page = <<>>
            THEN /\ pc' = "finally"
                 /\ pending' = [kind |-> "return", value |-> <<>>]
                 /\ idx' = idx
            ELSE /\ pc' = "loop"
                 /\ pending' = pending
                 /\ idx' = 1
    /\ UNCHANGED <<run, fault, playwright, browser, close_calls, scraped_data,
                   retval, mainVars>>

\* The loop body with len(spans) >= 4 for len(spans) == 4.
ContainerStep_AtLeastFour(spans, data) ==
    IF Len(spans) >= 4
    THEN LET availability_int == parseAvailability(spans[2])
             price_float == parsePrice(spans[4])
         IN  IF availability_int = Absent \/ price_float = Absent
             THEN [kind |-> "raise", data |-> data]
             ELSE [kind |-> "append",
                   data |-> Append(data, [type |-> spans[1],
                                          availability |-> availability_int[1],
                                          category |-> spans[3],
                                          price |-> price_float[1]])]
    ELSE [kind |-> "skip", data |-> data]

\* Lines 78-90 on one container: the container is skipped (another number
\* of spans than 4), int() or float() raises ValueError, or the listing is
\* appended.
ContainerStep(spans, data) ==
    IF Len(spans) = 4
    THEN LET availability_int == parseAvailability(spans[2])
             price_float == parsePrice(spans[4])
         IN  IF availability_int = Absent \/ price_float = Absent
             THEN [kind |-> "raise", data |-> data]
             ELSE [kind |-> "append",
                   data |-> Append(data, [type |-> spans[1],
                                          availability |-> availability_int[1],
                                          category |-> spans[3],
                                          price |-> price_float[1]])]
    ELSE [kind |-> "skip", data |-> data]

\* The loop with the ValueError caught inside it: the container is dropped
\* and the loop goes on.
ScrapeContainer_ContinueOnError ==
    /\ pc = "loop"
    /\ idx <= Len(ticket_containers)
    /\ LET spans == ticket_containers[idx]
           failed == /\ Len(spans) = 4
                     /\ \/ parseAvailability(spans[2]) = Absent
                        \/ parsePrice(spans[4]) = Absent
       IN  /\ fault' = IF failed THEN "parse" ELSE fault
           /\ scraped_data' =
                  IF Len(spans) = 4 /\ ~failed
                  THEN Append(scraped_data, [type |-> spans[1],
                                             availability |-> parseAvailability(spans[2])[1],
                                             category |-> spans[3],
                                             price |-> parsePrice(spans[4])[1]])
                  ELSE scraped_data
    /\ idx' = idx + 1
    /\ pc' = "loop"
    /\ UNCHANGED <<run, playwright, browser, close_calls, ticket_containers,
                   pending, retval, mainVars>>

\* One pass of the for loop of line 77.
ScrapeContainer ==
    /\ pc = "loop"
    /\ idx <= Len(ticket_containers)
    /\ LET r == ContainerStep(ticket_containers[idx], scraped_data)
       IN  IF r.kind = "raise"
           THEN /\ pc' = HandlerOf("ValueError")
                /\ fault' = "parse"
                /\ idx' = idx
                /\ scraped_data' = r.data
           ELSE /\ pc' = "loop"
                /\ fault' = fault
                /\ idx' = idx + 1
                /\ scraped_data' = r.data
    /\ UNCHANGED <<run, playwright, browser, close_calls, ticket_containers,
                   pending, retval, mainVars>>

\* Line 91: return scraped_data, after the last container.
ReturnScraped ==
    /\ pc = "loop"
    /\ idx > Len(ticket_containers)
    /\ pc' = "finally"
    /\ pending' = [kind |-> "return", value |-> scraped_data]
    /\ UNCHANGED <<run, fault, playwright, browser, close_calls, ticket_containers,
                   idx, scraped_data, retval, mainVars>>

\* Lines 92-96: the handler of TimeoutError takes a screenshot, which may
\* itself raise; the exception is then in flight when finally starts.
ExceptTimeout ==
    /\ pc = "except_timeout"
    /\ pc' = "finally"
    /\ \E screenshot \in {"saved", "raised"} :
         pending' = IF screenshot = "saved" THEN [kind |-> "handled"]
                                            ELSE [kind |-> "exception"]
    /\ UNCHANGED <<run, fault, playwright, browser, close_calls, ticket_containers,
                   idx, scraped_data, retval, mainVars>>

\* Lines 97-98: the handler of every other exception prints it.
ExceptException ==
    /\ pc = "except_exception"
    /\ pc' = "finally"
    /\ pending' = [kind |-> "handled"]
    /\ UNCHANGED <<run, fault, playwright, browser, close_calls, ticket_containers,
                   idx, scraped_data, retval, mainVars>>

\* A finally clause without the return: a pending return keeps its value,
\* an exception in flight goes on, a finished handler falls off the end of
\* the function (None).
FinallyReturn_NoReturn(pend, data) ==
    CASE pend.kind = "return" -> [kind |-> "list", value |-> pend.value]
      [] pend.kind = "exception" -> [kind |-> "raise"]
      [] OTHER -> [kind |-> "None"]

\* Line 103: the return of the finally clause replaces a pending return
\* value and discards an exception in flight.
FinallyReturn(pend, data) == [kind |-> "list", value |-> data]

\* Lines 99-103: browser.close(), then the return, which leaves the with
\* block (the playwright context stops).
Finally ==
    /\ pc = "finally"
    /\ browser' = "closed"
    /\ close_calls' = close_calls + 1
    /\ playwright' = "stopped"
    /\ LET r == FinallyReturn(pending, scraped_data)
       IN  IF r.kind = "raise"
           THEN /\ pc' = "crashed"
                /\ retval' = retval
           ELSE /\ pc' = "returned"
                /\ retval' = r
    /\ UNCHANGED <<run, fault, ticket_containers, idx, scraped_data, pending,
                   mainVars>>

(***************************************************************************)
(* __main__, lines 120-181                                                 *)
(***************************************************************************)

\* Line 120: scraped_info = scrape_ticket_info(event_url); the frame of the
\* function is gone.  (None, which is not a list, is as false as [].)
ReceiveScraped ==
    /\ pc = "returned"
    /\ pc' = "extracted"
    /\ scraped_info' = IF retval.kind = "list" THEN retval.value ELSE <<>>
    /\ ticket_containers' = <<>>
    /\ idx' = 0
    /\ scraped_data' = <<>>
    /\ pending' = [kind |-> "none"]
    /\ UNCHANGED <<run, fault, playwright, browser, close_calls, retval,
                   PUSHBULLET_API_TOKENS, summary_data, alert_calls, tok_idx,
                   requests, log_calls, log_file>>

\* Lines 122-156: with a non-empty list the summary is built.
BuildSummary ==
    /\ pc = "extracted"
    /\ scraped_info # <<>>
    /\ summary_data' = Some(Summarize(scraped_info, run))
    /\ pc' = "summarized"
    /\ UNCHANGED <<run, fault, scrapeVars, PUSHBULLET_API_TOKENS, scraped_info,
                   alert_calls, tok_idx, requests, log_calls, log_file>>

\* Lines 180-181: with an empty list the script prints that nothing was
\* scraped and ends.
NoTickets ==
    /\ pc = "extracted"
    /\ scraped_info = <<>>
    /\ pc' = "done"
    /\ UNCHANGED <<run, fault, scrapeVars, mainVars>>

\* Lines 159-166: send_pushbullet_alert is called when the cheapest price
\* is below the threshold.
AlertDecision ==
    /\ pc = "summarized"
    /\ IF BelowThreshold(summary_data[1].cheapest_price[1])
       THEN /\ alert_calls' = alert_calls + 1
            /\ pc' = "notify_enter"
       ELSE /\ alert_calls' = alert_calls
            /\ pc' = "log"
    /\ UNCHANGED <<run, fault, scrapeVars, PUSHBULLET_API_TOKENS, scraped_info,
                   summary_data, tok_idx, requests, log_calls, log_file>>

(***************************************************************************)
(* send_pushbullet_alert, lines 11-33                                      *)
(***************************************************************************)

\* Lines 13-17: with no token the function returns at once.
SendEnter ==
    /\ pc = "notify_enter"
    /\ IF PUSHBULLET_API_TOKENS = <<>>
       THEN /\ pc' = "log"
            /\ tok_idx' = tok_idx
       ELSE /\ pc' = "notify_loop"
            /\ tok_idx' = 1
    /\ UNCHANGED <<run, fault, scrapeVars, PUSHBULLET_API_TOKENS, scraped_info,
                   summary_data, alert_calls, requests, log_calls, log_file>>

\* The test of line 19 without its placeholder half.
SkippedToken_BlankOnly(token) == token = ""

\* Line 19: not token or "YOUR_PUSHBULLET_ACCESS_TOKEN" in token
SkippedToken(token) ==
    \/ token = ""
    \/ Contains(Chars(token), Chars("YOUR_PUSHBULLET_ACCESS_TOKEN"))

\* Lines 18-33, one pass of the loop: a skipped token, or one requests.post
\* whose answer (200, another status, an exception) is only printed.
SendToken ==
    /\ pc = "notify_loop"
    /\ tok_idx <= Len(PUSHBULLET_API_TOKENS)
    /\ LET token == PUSHBULLET_API_TOKENS[tok_idx]
       IN  IF SkippedToken(token)
           THEN requests' = requests
           ELSE \E outcome \in {"200", "rejected", "exception"} :
                    requests' = Append(requests, [token |-> token, outcome |-> outcome])
    /\ tok_idx' = tok_idx + 1
    /\ pc' = "notify_loop"
    /\ UNCHANGED <<run, fault, scrapeVars, PUSHBULLET_API_TOKENS, scraped_info,
                   summary_data, alert_calls, log_calls, log_file>>

\* The append of lines 168-178 placed in the else branch of line 165: after
\* an alert the script ends without it.
SendReturn_SkipLog ==
    /\ pc = "notify_loop"
    /\ tok_idx > Len(PUSHBULLET_API_TOKENS)
    /\ pc' = "done"
    /\ UNCHANGED <<run, fault, scrapeVars, mainVars>>

\* The end of the loop of line 18: the function returns to line 168.
SendReturn ==
    /\ pc = "notify_loop"
    /\ tok_idx > Len(PUSHBULLET_API_TOKENS)
    /\ pc' = "log"
    /\ UNCHANGED <<run, fault, scrapeVars, mainVars>>

(***************************************************************************)
(* The csv log, lines 168-178                                              *)
(***************************************************************************)

\* writer.writeheader(): the keys of summary_data.
Header ==
    [kind |-> "header",
     fields |-> <<"timestamp", "listings_found", "total_available_tickets",
                  "cheapest_price", "5th_cheapest_price", "10th_cheapest_price",
                  "most_expensive_price", "average_price_10_cheapest",
                  "average_price_all_tickets">>]

\* writer.writerow(summary_data)
Row(summary) == [kind |-> "row", data |-> summary]

\* The append without the file_exists test: a header with every row.
WriteRows_AlwaysHeader(file, summary) ==
    LET rows == IF file # Absent THEN file[1] ELSE <<>>
    IN  Some(rows \o <<Header>> \o <<Row(summary)>>)

\* Lines 169-175 when open(..., 'a') succeeds: the rows of the file, then
\* the header when the file did not exist, then the row.
WriteRows(file, summary) ==
    LET file_exists == file # Absent
        rows == IF file_exists THEN file[1] ELSE <<>>
    IN  Some(rows \o (IF ~file_exists THEN <<Header>> ELSE <<>>) \o <<Row(summary)>>)

\* Lines 169-178: the append; an exception of open() is caught and printed,
\* and the file is as it was.
AppendLog ==
    /\ pc = "log"
    /\ log_calls' = log_calls + 1
    /\ \/ log_file' = WriteRows(log_file, summary_data[1])
       \/ log_file' = log_file
    /\ pc' = "logged"
    /\ UNCHANGED <<run, fault, scrapeVars, PUSHBULLET_API_TOKENS, scraped_info,
                   summary_data, alert_calls, tok_idx, requests>>

\* The end of the script after line 178: exit status 0.
Exit ==
    /\ pc = "logged"
    /\ pc' = "done"
    /\ UNCHANGED <<run, fault, scrapeVars, mainVars>>

\* The script is started again (a scheduled job); only the log file stays.
NewRun ==
    /\ pc \in {"done", "crashed"}
    /\ run < MaxRuns
    /\ run' = run + 1
    /\ log_file' = log_file
    /\ pc' = "start"
    /\ PUSHBULLET_API_TOKENS' = <<>>
    /\ playwright' = "none"
    /\ browser' = "none"
    /\ close_calls' = 0
    /\ fault' = "none"
    /\ ticket_containers' = <<>>
    /\ idx' = 0
    /\ scraped_data' = <<>>
    /\ pending' = [kind |-> "none"]
    /\ retval' = [kind |-> "unset"]
    /\ scraped_info' = <<>>
    /\ summary_data' = Absent
    /\ alert_calls' = 0
    /\ tok_idx' = 0
    /\ requests' = <<>>
    /\ log_calls' = 0

(***************************************************************************)
(* Specifications                                                          *)
(***************************************************************************)

\* The steps of one run after the inputs are read.
RunSteps ==
    \/ LaunchBrowser
    \/ NewPage
    \/ Goto
    \/ CookieConsent
    \/ WaitForSelector
    \/ ScrapeContainer
    \/ ReturnScraped
    \/ ExceptTimeout
    \/ ExceptException
    \/ Finally
    \/ ReceiveScraped
    \/ BuildSummary
    \/ NoTickets
    \/ AlertDecision
    \/ SendEnter
    \/ SendToken
    \/ SendReturn
    \/ AppendLog
    \/ Exit

\* One run, every kind of container and token.
Next ==
    \/ ReadTokens(TokenEnvs(MaxTokens))
    \/ QueryContainers(Pages(ContainerKinds, MaxContainers))
    \/ RunSteps

Spec == Init /\ [][Next]_vars

\* One run over long pages of parsable containers.
NextLong ==
    \/ ReadTokens({[kind |-> "absent"], [kind |-> "array", value |-> <<"o.Valid1">>]})
    \/ QueryContainers(Pages(ParsableKinds, MaxListings))
    \/ RunSteps

SpecLong == Init /\ [][NextLong]_vars

\* Several runs over the same log file.
NextRuns ==
    \/ ReadTokens({[kind |-> "absent"], [kind |-> "malformed"],
                   [kind |-> "array", value |-> <<"o.Valid1">>]})
    \/ QueryContainers(Pages({GoodA, GoodB, BadPrice}, 1))
    \/ RunSteps
    \/ NewRun

SpecRuns == Init /\ [][NextRuns]_vars

(***************************************************************************)
(* Properties                                                              *)
(***************************************************************************)

\* The statements of scrape_ticket_info (lines 39-103).
InScrape == {"launch", "new_page", "goto", "cookie", "wait", "query", "loop",
             "except_timeout", "except_exception", "finally"}

\* The statements of __main__ after the summary is built.
AfterSummary == {"summarized", "notify_enter", "notify_loop", "log", "logged", "done"}

FourSpans(container) == Len(container) = 4

\* The listing of a parsable container with four spans.
ListingOf(container) ==
    [type |-> container[1],
     availability |-> parseAvailability(container[2])[1],
     category |-> container[3],
     price |-> parsePrice(container[4])[1]]

\* One listing per container with four spans, in the order of the page.
ListingsOf(containers) ==
    LET four == SelectSeq(containers, FourSpans)
    IN  [i \in 1..Len(four) |-> ListingOf(four[i])]

Unparsable(container) ==
    \/ parseAvailability(container[2]) = Absent
    \/ parsePrice(container[4]) = Absent

\* C1: in a run where navigation timed out, the container never became
\* visible or a text failed to parse, scrape_ticket_info does not raise: it
\* returns the list it collected (the empty list after a timeout).
C1_NeverRaises ==
    fault \in {"goto_timeout", "wait_timeout", "parse"} =>
        /\ pc # "crashed"
        /\ pc = "returned" => retval = [kind |-> "list", value |-> scraped_data]
        /\ pc \notin InScrape => retval.kind = "list"
        /\ (pc \notin InScrape /\ fault # "parse") => retval.value = <<>>

\* A timeout whose screenshot raised too, and the function has returned [].
C1_Witness ==
    /\ pc = "returned"
    /\ fault = "goto_timeout"
    /\ pending.kind = "exception"
    /\ retval = [kind |-> "list", value |-> <<>>]

\* C2: once the browser is launched, browser.close() is called exactly once
\* on every exit path of scrape_ticket_info, and before the list is returned.
C2_ReleasedOnEveryExit ==
    /\ close_calls <= 1
    /\ (browser # "none" /\ pc \notin InScrape) => (close_calls = 1 /\ browser = "closed")

\* The phase of the Orchestrator the run is in.
Phase ==
    CASE pc \in InScrape \cup {"start", "returned"} -> "Start"
      [] pc = "extracted" -> "Extracted"
      [] pc = "summarized" -> "Summarized"
      [] pc \in {"notify_enter", "notify_loop"} -> "Alerted"
      [] pc = "log" -> IF alert_calls > 0 THEN "Alerted" ELSE "Summarized"
      [] pc = "logged" -> "Logged"
      [] pc = "done" -> "Done"
      [] OTHER -> "Crashed"

Rows(file) == IF file = Absent THEN <<>> ELSE file[1]

ValidCredential(token) ==
    /\ token # ""
    /\ ~Contains(Chars(token), Chars("YOUR_PUSHBULLET_ACCESS_TOKEN"))

\* The tokens send_pushbullet_alert has gone through.
TokensTried ==
    CASE pc = "notify_loop" -> SubSeq(PUSHBULLET_API_TOKENS, 1, tok_idx - 1)
      [] pc \in {"log", "logged", "done"} /\ alert_calls > 0 -> PUSHBULLET_API_TOKENS
      [] OTHER -> <<>>

\* C5: the requests sent are, in order, one for every valid credential of
\* the list gone through so far, whatever the earlier requests answered:
\* none for the empty list, none twice, none left out after a failure.
C5_OneRequestPerValidCredential ==
    [i \in 1..Len(requests) |-> requests[i].token] = SelectSeq(TokensTried, ValidCredential)

\* Two valid credentials: the first request raised, the second was sent.
C5_Witness ==
    /\ pc = "log"
    /\ Len(PUSHBULLET_API_TOKENS) = 2
    /\ Len(requests) = 2
    /\ requests[1].outcome = "exception"
    /\ requests[1].token # requests[2].token

\* C6: no failure ends the process with an exception: every run goes on to
\* the normal end.
C6_NeverCrashes == pc # "crashed"

(* The k-th smallest price of the list, stated without sorting it. *)
IsKthPrice(v, k, info) ==
    /\ \E i \in 1..Len(info) : info[i].price = v
    /\ Cardinality({i \in 1..Len(info) : info[i].price < v}) < k
    /\ Cardinality({i \in 1..Len(info) : info[i].price <= v}) >= k

\* The field is absent when the list has fewer than k listings, and the
\* k-th smallest price otherwise.
IsOrderField(f, k, info) ==
    IF Len(info) < k THEN f = Absent
    ELSE f # Absent /\ IsKthPrice(f[1], k, info)

RECURSIVE AvailabilityUpTo(_, _)
AvailabilityUpTo(info, k) ==
    IF k = 0 THEN 0 ELSE AvailabilityUpTo(info, k - 1) + info[k].availability

SummaryOf(sm, info) ==
    /\ sm.listings_found = Len(info)
    /\ sm.total_available_tickets = AvailabilityUpTo(info, Len(info))
    /\ IsOrderField(sm.cheapest_price, 1, info)
    /\ IsOrderField(sm.price_5th_cheapest, 5, info)
    /\ IsOrderField(sm.price_10th_cheapest, 10, info)
    /\ IF Len(info) = 0 THEN sm.most_expensive_price = Absent
       ELSE /\ sm.most_expensive_price # Absent
            /\ IsKthPrice(sm.most_expensive_price[1], Len(info), info)

C8_AlertIffBelowThreshold ==
    /\ alert_calls <= 1
    /\ summary_data = Absent => (alert_calls = 0 /\ requests = <<>>)
    /\ alert_calls = 1 =>
         (summary_data # Absent /\ summary_data[1].cheapest_price[1] < PRICE_ALERT_THRESHOLD)
    /\ pc \in {"notify_enter", "notify_loop"} => (alert_calls = 1 /\ log_calls = 0)
    /\ (pc \in {"log", "logged", "done"} /\ summary_data # Absent
          /\ summary_data[1].cheapest_price[1] < PRICE_ALERT_THRESHOLD) => alert_calls = 1

\* A run whose cheapest price is the threshold itself has logged without
\* alerting.
C8_Witness ==
    /\ pc = "logged"
    /\ summary_data # Absent
    /\ summary_data[1].cheapest_price[1] = PRICE_ALERT_THRESHOLD
    /\ alert_calls = 0

\* C9: when nothing failed, the returned list has exactly one listing per
\* container with four spans, in page order, and nothing for another
\* container.
C9_OneListingPerFourSpanContainer ==
    (pc = "returned" /\ fault = "none") =>
        /\ retval = [kind |-> "list", value |-> ListingsOf(ticket_containers)]
        /\ Len(retval.value) = Cardinality({i \in 1..Len(ticket_containers) :
                                              Len(ticket_containers[i]) = 4})

\* Two containers, one of them with another number of spans: one listing.
C9_Witness ==
    /\ pc = "returned"
    /\ fault = "none"
    /\ Len(ticket_containers) = 2
    /\ Len(ticket_containers[1]) # 4
    /\ Len(retval.value) = 1

\* C10: after a parse failure at container k the function returns the
\* listings of the four-span containers before k, in order, and nothing of
\* k or of a later container; the list is returned after browser.close().
C10_PartialListAfterParseError ==
    fault = "parse" =>
        /\ pc \in InScrape =>
             (retval.kind = "unset" /\ idx \in 1..Len(ticket_containers))
        /\ pc = "returned" =>
             /\ idx \in 1..Len(ticket_containers)
             /\ Len(ticket_containers[idx]) = 4
             /\ Unparsable(ticket_containers[idx])
             /\ retval = [kind |-> "list",
                          value |-> ListingsOf(SubSeq(ticket_containers, 1, idx - 1))]
             /\ browser = "closed"
             /\ close_calls = 1

\* The second container failed to parse: the listing of the first is
\* returned.
C10_Witness ==
    /\ pc = "returned"
    /\ fault = "parse"
    /\ idx = 2
    /\ Len(retval.value) = 1
    /\ browser = "closed"

====
